---- MODULE Spec2Model ----
(***************************************************************************)
(* Model of the validation backend of ai-bytedance/data-validation:        *)
(*   backend/app/api/endpoints.py      run_validation, read_runs,          *)
(*                                     preview_dataset, parse_gx_result    *)
(*   backend/app/services/gx_service.py run_validation                     *)
(*   backend/app/services/ai_service.py validate_batch_with_ai             *)
(*   backend/app/core/db_utils.py      get_db_preview                      *)
(* Great Expectations, pandas, SQLAlchemy and the Gemini judge are the     *)
(* environment: their answers are nondeterministic choices over the        *)
(* outcomes they can produce.                                              *)
(***************************************************************************)
EXTENDS Integers, Sequences, FiniteSets, TLC

(* ------------------------------ bounds --------------------------------- *)
\* longest suite (number of expectations) a request is made with
MaxRules == 2
\* most rows a data file holds
MaxRows == 2

(* --------------------------- python values ----------------------------- *)
\* a missing dict key / an attribute that is None
NoValue == "<absent>"
\* the cell values None and float('nan'), told apart from every string
NONE == "<None>"
NAN == "<NaN>"

\* the three outcomes of dict.get("success") on a statistics dict
FlagOf(b) == IF b THEN "true" ELSE "false"

(* ------------------------------ scores --------------------------------- *)
\* a float score is kept as the exact fraction num/den in lowest terms
RECURSIVE Gcd(_, _)
Gcd(a, b) == IF b = 0 THEN a ELSE Gcd(b, a % b)

Frac(n, d) == LET g == Gcd(n, d) IN [num |-> n \div g, den |-> d \div g]

Zero == Frac(0, 1)
Hundred == Frac(100, 1)

\* successful / evaluated * 100
Percent(successful, evaluated) == Frac(100 * successful, evaluated)

(* ------------------------------ strings -------------------------------- *)
UpperChars == "ABCDEFGHIJKLMNOPQRSTUVWXYZ"
LowerChars == "abcdefghijklmnopqrstuvwxyz"

CharAt(s, i) == SubSeq(s, i, i)

\* str.lower() of one character
LowerChar(ch) ==
    IF \E i \in 1..Len(UpperChars) : CharAt(UpperChars, i) = ch
    THEN CharAt(LowerChars, CHOOSE i \in 1..Len(UpperChars) : CharAt(UpperChars, i) = ch)
    ELSE ch

\* str.lower()
RECURSIVE Lower(_)
Lower(s) == IF Len(s) = 0 THEN "" ELSE LowerChar(CharAt(s, 1)) \o Lower(SubSeq(s, 2, Len(s)))

\* the python test  sub in s  on strings
Contains(s, sub) ==
    \E i \in 1..(Len(s) - Len(sub) + 1) : SubSeq(s, i, i + Len(sub) - 1) = sub

\* str.strip() == "" for the strings of the model (blank or not)
IsBlank(s) == \A i \in 1..Len(s) : CharAt(s, i) = " "

\* urllib.parse.quote_plus of one character
QuoteChar(ch) ==
    CASE ch = " " -> "+"
      [] ch = "@" -> "%40"
      [] ch = ":" -> "%3A"
      [] ch = "/" -> "%2F"
      [] OTHER -> ch

\* urllib.parse.quote_plus
RECURSIVE QuotePlus(_)
QuotePlus(s) == IF Len(s) = 0 THEN "" ELSE QuoteChar(CharAt(s, 1)) \o QuotePlus(SubSeq(s, 2, Len(s)))

\* str(v) of a cell value
Str(v) == CASE v = NONE -> "None" [] v = NAN -> "nan" [] OTHER -> v

(* ------------------------------ inputs --------------------------------- *)
AI_TYPE == "expect_column_values_to_match_ai_semantic_check"
\* an expectation type Great Expectations implements
KNOWN_TYPE == "expect_column_values_to_not_be_null"
\* an expectation type nothing implements
UNKNOWN_TYPE == "expect_column_values_to_be_plausible"

\* one element of suite.expectations: {"type", "column"?, "kwargs": {"column"?, "prompt"}}
Rule(type, column, kwcolumn) ==
    [type |-> type, column |-> column, kwargs |-> [column |-> kwcolumn, prompt |-> "is a name"]]

RuleInputs ==
    { Rule(KNOWN_TYPE, "c", NoValue),
      Rule(UNKNOWN_TYPE, "c", NoValue),
      Rule(AI_TYPE, NoValue, "c"),
      Rule(AI_TYPE, NoValue, "d"),
      \* a semantic rule that names its column at the top level only
      Rule(AI_TYPE, "c", NoValue) }

SeqsUpTo(S, n) == UNION { [1..k -> S] : k \in 0..n }

Suite(expectations) == [id |-> "s1", name |-> "orders suite", expectations |-> expectations]

NoSuite == [id |-> NoValue, name |-> NoValue, expectations |-> <<>>]

SuiteInputs == { Suite(e) : e \in SeqsUpTo(RuleInputs, MaxRules) }

\* the values of DbConnectionConfig.type the requests are made with
DbTypes == { "PostgreSQL", "MySQL", "sqlite", "mssql", "oracle", "hive", "Neo4j", "MongoDB", "" }

DbConfig(type, table) ==
    [type |-> type, host |-> "db.local", port |-> "5432", database |-> "shop",
     username |-> "ann", password |-> "p@ss:1", table |-> table]

\* dataset.db_config when the dataset has none
NoDbConfig ==
    [type |-> NoValue, host |-> NoValue, port |-> NoValue, database |-> NoValue,
     username |-> NoValue, password |-> NoValue, table |-> NoValue]

Dataset(file_path, db_config) == [id |-> "ds1", file_path |-> file_path, db_config |-> db_config]

\* what session.get returns for an id that is not stored
NoDataset == [id |-> NoValue, file_path |-> NoValue, db_config |-> NoDbConfig]

\* os.path.exists
PathExists(path) == path = "data.csv"

\* the datasets validations are asked for: a file, a file that is gone, no
\* source at all, and relational sources (the first one with a stale file path)
DatasetInputs ==
    { Dataset("data.csv", NoDbConfig), Dataset("gone.csv", NoDbConfig),
      Dataset(NoValue, NoDbConfig) }
    \cup { Dataset(IF t = "PostgreSQL" THEN "gone.csv" ELSE NoValue, DbConfig(t, "orders")) :
            t \in { "PostgreSQL", "MySQL", "sqlite", "mssql", "Neo4j", "" } }

\* the cell values a column can hold: None, NaN, the empty string, strings
CellValues == { NONE, NAN, "", "a", "b" }

\* the cells of column c of a data file, where pandas reads a missing cell
\* as NaN; column d holds "x" in every row
FileCells == { NAN, "a" }

Row(v) == [c |-> v, d |-> "x"]

Batch(rows) == [columns |-> << "c", "d" >>, rows |-> rows]

NoBatch == [columns |-> <<>>, rows |-> <<>>]

\* what a data file can hold
FileBatches == { Batch(r) : r \in SeqsUpTo({ Row(v) : v \in FileCells }, MaxRows) }

\* what the table of a relational source holds
DbBatch == Batch(<< Row("a") >>)

(* ------------------------------- state --------------------------------- *)
VARIABLES
    runs,                   \* table ValidationRun, oldest first: [success, score]
    pc,                     \* position of the request being served
    dataset, suite,         \* the rows session.get returned
    standard_expectations, ai_expectations,
    gx_suite,               \* the expectations of the suite saved in the context
    connection_string,      \* of the SQL datasource of this run, or NoValue
    batch,                  \* the rows behind batch_request, or NoValue
    result_dict,            \* {"success", "run_results": ordered key -> entry}
    ai_idx,                 \* index of the next element of ai_expectations
    judge_log,              \* the calls made to the external judge in this run
    values, validation_map, \* the column values and verdicts of a semantic evaluation
    api_key,                \* settings.GEMINI_API_KEY is set
    context,                \* the module-level gx context: its SQL datasource and table asset
    source_up,              \* the source of the request being served can be read
    db_io,                  \* what get_db_preview did to the database in the last preview
    response                \* the last HTTP response

vars == << runs, pc, dataset, suite, standard_expectations, ai_expectations,
           gx_suite, connection_string, batch, result_dict, ai_idx, judge_log,
           values, validation_map, api_key, context, source_up, db_io, response >>

\* the locals of gx_service.run_validation
locals == << standard_expectations, ai_expectations, gx_suite, connection_string,
             batch, result_dict, ai_idx, judge_log, values, validation_map >>

NoResponse == [op |-> "none"]

\* the table the application starts with: the database outlives the
\* process, and holds a run stored before the endpoint reconciled success
\* with the score ("historical data ... DB says False")
StoredRuns == << [success |-> FALSE, score |-> Hundred] >>

NoMap == [k \in {} |-> FALSE]

\* no engine created, no connection opened, no statement executed
NoIo == [engine |-> NoValue, connected |-> FALSE, probes |-> 0, selects |-> 0]

\* {"run_results": {}, "success": True}
EmptyResult == [success |-> TRUE, run_results |-> <<>>]

\* gx.get_context(mode="ephemeral"): no datasource yet
EmptyContext == [datasource |-> NoValue, asset |-> FALSE]

FreshLocals ==
    /\ standard_expectations = <<>>
    /\ ai_expectations = <<>>
    /\ gx_suite = <<>>
    /\ connection_string = NoValue
    /\ batch = NoBatch
    /\ result_dict = EmptyResult
    /\ ai_idx = 1
    /\ judge_log = <<>>
    /\ values = <<>>
    /\ validation_map = NoMap

Init ==
    /\ runs = StoredRuns
    /\ pc = "idle"
    /\ dataset = NoDataset
    /\ suite = NoSuite
    /\ FreshLocals
    /\ api_key \in BOOLEAN
    /\ context = EmptyContext
    /\ source_up = TRUE
    /\ db_io = NoIo
    /\ response = NoResponse

(* ------------------------ HTTP responses -------------------------------- *)
\* raise HTTPException(status_code=..., detail=...)
HttpError(op, status, detail) == [op |-> op, status |-> status, detail |-> detail]

\* ValidationRunResponse
RunResponse(run, results) ==
    [op |-> "validate", status |-> 200, success |-> run.success, score |-> run.score,
     results |-> results]

ResetLocals ==
    /\ standard_expectations' = <<>>
    /\ ai_expectations' = <<>>
    /\ gx_suite' = <<>>
    /\ connection_string' = NoValue
    /\ batch' = NoBatch
    /\ result_dict' = EmptyResult
    /\ ai_idx' = 1
    /\ judge_log' = <<>>
    /\ values' = <<>>
    /\ validation_map' = NoMap

\* gx_service.run_validation raises: the endpoint answers 500 and stores nothing
Raise500(detail) ==
    /\ pc' = "done"
    /\ response' = HttpError("validate", 500, detail)
    /\ UNCHANGED << runs, dataset, suite, api_key, source_up, db_io >>

(* -------------------- endpoints.run_validation: entry ------------------- *)
ValidateRequest(ds, su, up) ==
    /\ pc = "idle"
    /\ dataset' = ds
    /\ suite' = su
    /\ source_up' = up
    /\ ResetLocals
    /\ IF ds = NoDataset \/ su = NoSuite
       THEN /\ pc' = "done"
            /\ response' = HttpError("validate", 404, "Resource not found")
       ELSE /\ pc' = "setup_suite"
            /\ response' = NoResponse
    /\ db_io' = NoIo
    /\ UNCHANGED << runs, api_key, context >>

(* --------------- gx_service.run_validation: the suite ------------------- *)
IsAi(exp) == exp.type = AI_TYPE
IsStandard(exp) == exp.type # AI_TYPE

\* ExpectationConfiguration(expectation_type=exp["type"], kwargs=kwargs): the
\* top-level column, when the rule has one, is written over kwargs["column"]
Configuration(exp_data) ==
    [expectation_type |-> exp_data.type,
     kwargs |-> IF exp_data.column # NoValue
                THEN [exp_data.kwargs EXCEPT !.column = exp_data.column]
                ELSE exp_data.kwargs]

\* kwargs = exp_data["kwargs"] without the copy: the column is written into
\* the kwargs of the rule itself
ExpDataInPlace(exp_data) ==
    IF exp_data.column # NoValue
    THEN [exp_data EXCEPT !.kwargs.column = exp_data.column]
    ELSE exp_data

\* the rule after its configuration was built: kwargs is a copy
\* (exp_data.get("kwargs", {}).copy()), so the assignment to kwargs["column"]
\* does not reach exp_data, which is an element of suite.expectations
ExpData(exp_data) == exp_data

SameDomain(a, b) ==
    a.expectation_type = b.expectation_type /\ a.kwargs.column = b.kwargs.column

\* gx_suite.add_expectation(config): a configuration of the same type and
\* domain is replaced in place, any other is appended
AddExpectation(gs, config) ==
    IF \E i \in 1..Len(gs) : SameDomain(gs[i], config)
    THEN [i \in 1..Len(gs) |-> IF SameDomain(gs[i], config) THEN config ELSE gs[i]]
    ELSE Append(gs, config)

RECURSIVE AddAll(_, _)
AddAll(gs, exps) ==
    IF exps = <<>> THEN gs
    ELSE AddAll(AddExpectation(gs, Configuration(Head(exps))), Tail(exps))

\* the expectation types Great Expectations has an implementation for
Implemented(type) == type = KNOWN_TYPE

SetupSuite(raises) ==
    /\ pc = "setup_suite"
    /\ LET std == SelectSeq(suite.expectations, IsStandard)
           ai == SelectSeq(suite.expectations, IsAi)
           \* standard_expectations holds the very dicts of suite.expectations
           after == [i \in 1..Len(suite.expectations) |->
                       IF IsStandard(suite.expectations[i])
                       THEN ExpData(suite.expectations[i])
                       ELSE suite.expectations[i]]
       IN  \* the library may refuse a configuration of a type it does not know
           IF raises /\ \E i \in 1..Len(std) : ~Implemented(std[i].type)
           THEN /\ Raise500("expectation not found")
                /\ UNCHANGED << locals, context >>
           ELSE /\ ~raises
                /\ standard_expectations' = SelectSeq(after, IsStandard)
                /\ ai_expectations' = ai
                /\ gx_suite' = AddAll(<<>>, std)
                /\ suite' = [suite EXCEPT !.expectations = after]
                /\ pc' = "resolve"
                /\ UNCHANGED << runs, dataset, connection_string, batch,
                                result_dict, ai_idx, judge_log, values, validation_map,
                                api_key, context, source_up, db_io, response >>

(* --------------- gx_service.run_validation: the source ------------------ *)
\* the SQLAlchemy driver chosen for db_config["type"]
Driver(db_type) ==
    IF Contains(db_type, "postgres") THEN "postgresql+psycopg2"
    ELSE IF Contains(db_type, "mysql") THEN "mysql+pymysql"
    ELSE IF Contains(db_type, "sqlite") THEN "sqlite"
    ELSE "postgresql+psycopg2"

ConnectionString(db_config) ==
    LET driver == Driver(Lower(db_config.type))
    IN  IF driver = "sqlite"
        THEN "sqlite:///" \o db_config.host
        ELSE driver \o "://" \o db_config.username \o ":" \o db_config.password
             \o "@" \o db_config.host \o ":" \o db_config.port \o "/" \o db_config.database

\* context.sources.add_sql under the name sql_source_<dataset.id>, unless the
\* context has a datasource of that name
AddSql(ctx, url) ==
    IF ctx.datasource = NoValue THEN [ctx EXCEPT !.datasource = url] ELSE ctx

\* b: the rows behind the batch request; raises: resolution raises. A file is
\* read here; a table asset the context does not hold yet is added here, and
\* adding it tests the connection; an asset the context holds is taken as is
ResolveSource(b, raises) ==
    /\ pc = "resolve"
    /\ IF dataset.file_path # NoValue /\ PathExists(dataset.file_path)
       THEN \* pd.read_csv
            /\ raises = ~source_up
            /\ IF raises
               THEN b = NoBatch /\ Raise500("cannot parse file") /\ UNCHANGED << locals, context >>
               ELSE /\ b \in FileBatches
                    /\ batch' = b
                    /\ pc' = "checkpoint"
                    /\ UNCHANGED << runs, dataset, suite, standard_expectations,
                                    ai_expectations, gx_suite, connection_string, result_dict,
                                    ai_idx, judge_log, values, validation_map, api_key,
                                    context, source_up, db_io, response >>
       ELSE IF dataset.db_config # NoDbConfig
       THEN \* add_sql, get_asset / add_table_asset, build_batch_request
            /\ connection_string' = ConnectionString(dataset.db_config)
            /\ raises = (~context.asset /\ ~source_up)
            /\ IF raises
               THEN /\ b = NoBatch
                    /\ context' = AddSql(context, connection_string')
                    /\ Raise500("cannot connect")
                    /\ UNCHANGED << standard_expectations, ai_expectations, gx_suite, batch,
                                    result_dict, ai_idx, judge_log, values, validation_map >>
               ELSE /\ b = DbBatch
                    /\ batch' = b
                    /\ context' = [AddSql(context, connection_string') EXCEPT !.asset = TRUE]
                    /\ pc' = "checkpoint"
                    /\ UNCHANGED << runs, dataset, suite, standard_expectations,
                                    ai_expectations, gx_suite, result_dict, ai_idx,
                                    judge_log, values, validation_map, api_key, source_up,
                                    db_io, response >>
       ELSE /\ b = NoBatch
            /\ ~raises
            /\ Raise500("Dataset has no data source config")
            /\ UNCHANGED << locals, context >>

(* -------------- gx_service.run_validation: the checkpoint --------------- *)
\* one element of validation_result["results"]
GxResult(config, success) ==
    [expectation_type |-> config.expectation_type, column |-> config.kwargs.column,
     success |-> success]

CountTrue(flags) == Cardinality({ i \in DOMAIN flags : flags[i] })

\* validation_result["statistics"] of a checkpoint run: the library counts
\* the expectations and gives their percentage, and stores no "success" key
GxStatistics(flags) ==
    [success |-> "absent", success_percent |-> Percent(CountTrue(flags), Len(flags))]

\* one value of run_results
Entry(key, kind, statistics, results) ==
    [key |-> key, kind |-> kind, statistics |-> statistics, results |-> results]

\* results.to_json_dict()
CheckpointResult(gs, flags) ==
    [success |-> \A i \in DOMAIN flags : flags[i],
     run_results |->
        << Entry("validation", "gx", GxStatistics(flags),
                 [i \in 1..Len(gs) |-> GxResult(gs[i], flags[i])]) >>]

\* the result built when checkpoint.run raises
SyntheticFailure ==
    [success |-> FALSE,
     run_results |->
        << Entry("error", "error",
                 [success |-> "false", success_percent |-> Zero,
                  observed_value |-> "Critical Validation Error"], <<>>) >>]

\* the result is returned as the checkpoint left it
AfterCheckpointReturn == "return"

\* if ai_expectations and batch_request: the semantic rules come next
AfterCheckpoint == IF ai_expectations # <<>> THEN "ai_prepare" ELSE "return"

RunCheckpoint(flags, raises) ==
    /\ pc = "checkpoint"
    /\ IF standard_expectations # <<>>
       THEN \* a table that cannot be read makes checkpoint.run raise
            /\ (connection_string # NoValue /\ ~source_up) => raises
            /\ IF raises
               THEN /\ flags = <<>>
                    /\ result_dict' = SyntheticFailure
               ELSE /\ flags \in [1..Len(gx_suite) -> BOOLEAN]
                    \* an expectation of a type without implementation cannot succeed
                    /\ \A i \in 1..Len(gx_suite) :
                           ~Implemented(gx_suite[i].expectation_type) => ~flags[i]
                    /\ result_dict' = CheckpointResult(gx_suite, flags)
       ELSE /\ flags = <<>> /\ ~raises
            /\ result_dict' = EmptyResult
    /\ pc' = AfterCheckpoint
    /\ UNCHANGED << runs, dataset, suite, standard_expectations, ai_expectations,
                    gx_suite, connection_string, batch, ai_idx, judge_log, values,
                    validation_map, api_key, context, source_up, db_io, response >>

(* ------------- gx_service.run_validation: semantic rules ---------------- *)
\* rows fetched for the semantic rules: validator.head(n=1000)
HeadRows == 1000

HeadOf(rows, n) == SubSeq(rows, 1, IF Len(rows) < n THEN Len(rows) ELSE n)

InSeq(x, sq) == \E i \in 1..Len(sq) : sq[i] = x

\* context.get_validator(...).head(n=1000); a relational source is read here
AiPrepare(raises) ==
    /\ pc = "ai_prepare"
    /\ raises = (connection_string # NoValue /\ ~source_up)
    /\ IF raises
       THEN /\ Raise500("cannot read table")
            /\ UNCHANGED << locals, context >>
       ELSE /\ pc' = "ai_rule"
            /\ UNCHANGED << runs, dataset, suite, locals, api_key, context, source_up, db_io, response >>

\* df_head[col].tolist()
ColumnValues(b, col) ==
    [i \in 1..Len(HeadOf(b.rows, HeadRows)) |-> IF col = "c" THEN b.rows[i].c ELSE b.rows[i].d]

\* ai_service: list(set([str(v) for v in values if v not in [None, ""]]))
UniqueValues(vals) == { Str(vals[i]) : i \in { j \in 1..Len(vals) : vals[j] \notin { NONE, "" } } }

\* [str(v) for v in values if v not in [None, ""]]: nothing removes a repeat
UniqueListNoDedup(vals) ==
    LET kept == SelectSeq(vals, LAMBDA v : v \notin { NONE, "" })
    IN  [i \in 1..Len(kept) |-> Str(kept[i])]

RECURSIVE UniqueList(_)
\* unique_values as the list json.dumps writes into the message: the string
\* forms kept, each once. The order in which list(set(...)) yields them is
\* not read by anything; the model lists them in order of first occurrence
UniqueList(vals) ==
    IF vals = <<>> THEN <<>>
    ELSE LET rest == UniqueList(SubSeq(vals, 1, Len(vals) - 1))
             v == vals[Len(vals)]
         IN  IF v \in { NONE, "" } \/ InSeq(Str(v), rest) THEN rest ELSE Append(rest, Str(v))

\* validation_map.get(key, True): a missing verdict read as valid
MapGetDefaultTrue(map, key) == IF key \in DOMAIN map THEN map[key] ELSE TRUE

\* validation_map.get(key, False)
MapGet(map, key) == IF key \in DOMAIN map THEN map[key] ELSE FALSE

\* [v for v in values if not validation_map.get(str(v), False)]
Failures(vals, map) == SelectSeq(vals, LAMBDA v : ~MapGet(map, Str(v)))

\* the verdict maps the judge can answer with: some of the values it was
\* sent, each with isValid true or false
JudgeAnswers(unique) ==
    UNION { [keys -> BOOLEAN] : keys \in SUBSET unique }

\* the judge is consulted: there is something to check and a key to call with
JudgeCalled(vals) == UniqueValues(vals) # {} /\ api_key

\* ai_service.validate_batch_with_ai(values, prompt); raised: the call raised
\* or its text did not parse; answer: the verdicts parsed from it
ValidateBatchWithAi(vals, raised, answer) ==
    LET unique_values == UniqueValues(vals)
    IN  IF unique_values = {} THEN NoMap
        ELSE IF ~api_key THEN [v \in unique_values |-> FALSE]
        ELSE IF raised THEN NoMap
        ELSE answer

\* result_dict.setdefault("run_results", {})[key] = entry
SetEntry(rd, entry) ==
    [rd EXCEPT !.run_results =
        IF \E i \in 1..Len(@) : @[i].key = entry.key
        THEN [i \in 1..Len(@) |-> IF @[i].key = entry.key THEN entry ELSE @[i]]
        ELSE Append(@, entry)]

\* the entry injected for a semantic rule
AiEntry(col, prompt, success, failures) ==
    [key |-> "ai_validation_" \o col, kind |-> "ai",
     statistics |-> [success |-> FlagOf(success),
                     success_percent |-> IF success THEN Hundred ELSE Zero,
                     observed_value |-> Len(failures)],
     results |-> <<>>,
     meta |-> [ai_prompt |-> prompt]]

\* lines 185-190 of gx_service for one list of column values
SemanticOutcome(vals, raised, answer) ==
    LET map == ValidateBatchWithAi(vals, raised, answer)
        failures == Failures(vals, map)
    IN  [validation_map |-> map, failures |-> failures, success |-> Len(failures) = 0]

\* what the judge may be made to answer for a call on vals
JudgeReplies(vals, raised, answer) ==
    IF JudgeCalled(vals)
    THEN IF raised THEN answer = NoMap ELSE answer \in JudgeAnswers(UniqueValues(vals))
    ELSE ~raised /\ answer = NoMap

\* the calls made to the judge once vals were evaluated under prompt
JudgeLogAfter(log, vals, prompt) ==
    IF JudgeCalled(vals)
    THEN Append(log, [condition |-> prompt, values |-> UniqueList(vals)])
    ELSE log

\* every string a cell of the model can be sent to the judge as
JudgeKeys == { Str(v) : v \in CellValues \ { NONE, "" } } \cup { "x" }

AfterAiRule == IF ai_idx + 1 > Len(ai_expectations) THEN "return" ELSE "ai_rule"

AiRule(raised, answer) ==
    /\ pc = "ai_rule"
    /\ LET exp == ai_expectations[ai_idx]
           col == exp.kwargs.column
       IN  IF col # NoValue /\ InSeq(col, batch.columns)
           THEN LET vals == ColumnValues(batch, col)
                    out == SemanticOutcome(vals, raised, answer)
                IN  /\ JudgeReplies(vals, raised, answer)
                    /\ judge_log' = JudgeLogAfter(judge_log, vals, exp.kwargs.prompt)
                    /\ result_dict' =
                          SetEntry(result_dict,
                                   AiEntry(col, exp.kwargs.prompt, out.success, out.failures))
           ELSE \* the rule is passed over
                /\ ~raised /\ answer = NoMap
                /\ UNCHANGED << judge_log, result_dict >>
    /\ ai_idx' = ai_idx + 1
    /\ pc' = AfterAiRule
    /\ UNCHANGED << runs, dataset, suite, standard_expectations, ai_expectations,
                    gx_suite, connection_string, batch, values, validation_map, api_key, context, source_up,
                    db_io, response >>

\* the evaluation of one semantic rule on its own: the column values are
\* drawn from every list of cells, the rest is what AiRule does with them
EvaluateSemantic(vals, raised, answer) ==
    /\ pc = "idle"
    /\ JudgeReplies(vals, raised, answer)
    /\ LET out == SemanticOutcome(vals, raised, answer)
       IN  /\ values' = vals
           /\ validation_map' = out.validation_map
           /\ judge_log' = JudgeLogAfter(judge_log, vals, "is a name")
           /\ result_dict' = SetEntry(result_dict, AiEntry("c", "is a name", out.success, out.failures))
    /\ pc' = "evaluated"
    /\ UNCHANGED << runs, dataset, suite, standard_expectations, ai_expectations, gx_suite,
                    connection_string, batch, ai_idx, api_key, context, source_up, db_io, response >>

(* --------------- endpoints.run_validation: the summary ------------------ *)
\* stats.get("success", True): a missing flag read as success
StatsSuccessDefaultTrue(stats) == stats.success # "false"

\* stats.get("success", False)
StatsSuccess(stats) == stats.success = "true"

\* the summary without the line that forces success at a score of 100
SummaryNoReconcile(raw_result) ==
    IF raw_result.run_results = <<>>
    THEN [success |-> TRUE, score |-> Zero]
    ELSE LET stats == raw_result.run_results[1].statistics
         IN  [success |-> StatsSuccess(stats), score |-> stats.success_percent]

\* the summary reading the flag at the top of the result instead of the
\* one in the statistics
SummaryTopLevel(raw_result) ==
    IF raw_result.run_results = <<>>
    THEN [success |-> TRUE, score |-> Zero]
    ELSE LET score == raw_result.run_results[1].statistics.success_percent
         IN  [success |-> IF score = Hundred THEN TRUE ELSE raw_result.success,
              score |-> score]

\* the summary starting from success = False
SummaryInitFalse(raw_result) ==
    IF raw_result.run_results = <<>>
    THEN [success |-> FALSE, score |-> Zero]
    ELSE LET stats == raw_result.run_results[1].statistics
             score == stats.success_percent
         IN  [success |-> IF score = Hundred THEN TRUE ELSE StatsSuccess(stats),
              score |-> score]

\* the summary taken from the first value of run_results
Summary(raw_result) ==
    IF raw_result.run_results = <<>>
    THEN [success |-> TRUE, score |-> Zero]
    ELSE LET stats == raw_result.run_results[1].statistics
             score == stats.success_percent
         IN  [success |-> IF score = Hundred THEN TRUE ELSE StatsSuccess(stats),
              score |-> score]

\* ValidationResultItem of one element of a "results" list
ResultItem(res) ==
    [expectationId |-> (IF res.column = NoValue THEN "table" ELSE res.column)
                       \o "." \o res.expectation_type,
     success |-> res.success]

RECURSIVE ParseGxResult(_)
\* endpoints.parse_gx_result on run_results
ParseGxResult(run_results) ==
    IF run_results = <<>> THEN <<>>
    ELSE [i \in 1..Len(Head(run_results).results) |-> ResultItem(Head(run_results).results[i])]
         \o ParseGxResult(Tail(run_results))

\* gx_service.run_validation returns; the endpoint summarises, stores the run
\* and answers
Respond ==
    /\ pc = "return"
    /\ LET run == Summary(result_dict)
       IN  /\ runs' = Append(runs, run)
           /\ response' = RunResponse(run, ParseGxResult(result_dict.run_results))
    /\ pc' = "done"
    /\ UNCHANGED << dataset, suite, locals, api_key, context, source_up, db_io >>

(* ------------------------- endpoints.read_runs -------------------------- *)
Reverse(sq) == [i \in 1..Len(sq) |-> sq[Len(sq) + 1 - i]]

\* one ValidationRunResponse of the listing
ListedRun(r) == [success |-> r.success \/ r.score = Hundred, score |-> r.score]

\* a new request: the frame of the request served before is gone
ClearFrame ==
    /\ dataset' = NoDataset
    /\ suite' = NoSuite
    /\ ResetLocals

ReadRuns ==
    /\ pc \in { "idle", "done" }
    /\ response' = [op |-> "runs", status |-> 200,
                    runs |-> [i \in 1..Len(runs) |-> ListedRun(Reverse(runs)[i])]]
    /\ pc' = "listed"
    /\ ClearFrame
    /\ db_io' = NoIo
    /\ UNCHANGED << runs, api_key, context, source_up >>

(* ---------------------- db_utils.get_db_preview -------------------------- *)
\* rows a preview returns: SELECT * FROM table LIMIT 5
PreviewRows == 5

\* python truthiness of an optional string: neither None nor ""
Truthy(x) == x # NoValue /\ x # ""

\* "<driver>://<user>:<password>@<host>:<port>/<db>" with quoted credentials
PreviewUrl(driver, c) ==
    driver \o "://"
    \o (IF Truthy(c.username) THEN QuotePlus(c.username) ELSE "") \o ":"
    \o (IF Truthy(c.password) THEN QuotePlus(c.password) ELSE "")
    \o "@" \o c.host \o ":" \o c.port \o "/" \o c.database

\* the dispatch ending, like the one of gx_service, in a default driver
PreviewTargetFallback(c, installed) ==
    LET db_type == Lower(c.type)
        db_file == IF Truthy(c.host) THEN c.host ELSE c.database
        Url(u) == [url |-> u, error |-> NoValue]
        Error(e) == [url |-> NoValue, error |-> e]
    IN  IF Contains(db_type, "sqlite")
        THEN IF ~Truthy(db_file) \/ IsBlank(db_file)
             THEN Error("SQLite requires a database file path")
             ELSE Url("sqlite:///" \o db_file)
        ELSE IF Contains(db_type, "mysql") THEN Url(PreviewUrl("mysql+pymysql", c))
        ELSE IF Contains(db_type, "sql server") \/ Contains(db_type, "mssql")
        THEN IF installed THEN Url(PreviewUrl("mssql+pymssql", c))
             ELSE Error("SQL Server driver (pymssql) not installed on backend.")
        ELSE IF Contains(db_type, "oracle")
        THEN IF installed THEN Url(PreviewUrl("oracle+cx_oracle", c))
             ELSE Error("Oracle driver (cx_Oracle) not installed on backend.")
        ELSE Url(PreviewUrl("postgresql+psycopg2", c))

\* the dispatch on db_type: the URL to connect with, or the error raised
\* instead; installed: the optional driver module can be imported
PreviewTarget(c, installed) ==
    LET db_type == Lower(c.type)
        db_file == IF Truthy(c.host) THEN c.host ELSE c.database
        Url(u) == [url |-> u, error |-> NoValue]
        Error(e) == [url |-> NoValue, error |-> e]
    IN  IF Contains(db_type, "sqlite")
        THEN IF ~Truthy(db_file) \/ IsBlank(db_file)
             THEN Error("SQLite requires a database file path")
             ELSE Url("sqlite:///" \o db_file)
        ELSE IF Contains(db_type, "postgres") THEN Url(PreviewUrl("postgresql+psycopg2", c))
        ELSE IF Contains(db_type, "mysql") THEN Url(PreviewUrl("mysql+pymysql", c))
        ELSE IF Contains(db_type, "sql server") \/ Contains(db_type, "mssql")
        THEN IF installed THEN Url(PreviewUrl("mssql+pymssql", c))
             ELSE Error("SQL Server driver (pymssql) not installed on backend.")
        ELSE IF Contains(db_type, "oracle")
        THEN IF installed THEN Url(PreviewUrl("oracle+cx_oracle", c))
             ELSE Error("Oracle driver (cx_Oracle) not installed on backend.")
        ELSE IF Contains(db_type, "hive") THEN Error("Hive support is currently experimental")
        ELSE IF Contains(db_type, "neo4j") THEN Error("Neo4j (Graph DB) is not supported")
        ELSE IF Contains(db_type, "mongodb") THEN Error("MongoDB (NoSQL) is not supported")
        ELSE Error("Unsupported database type")

\* what a call returns or raises, with what it did to the database
PreviewOutcome(error, io, rows) ==
    [error |-> error, io |-> io,
     headers |-> IF rows = <<>> THEN <<>> ELSE << "c", "d" >>, rows |-> rows]

\* get_db_preview(db_config); env says what the environment lets succeed
GetDbPreview(c, env) ==
    LET target == PreviewTarget(c, env.installed)
        created == [NoIo EXCEPT !.engine = target.url]
        opened == [created EXCEPT !.connected = TRUE]
    IN  IF target.error # NoValue THEN PreviewOutcome(target.error, NoIo, <<>>)
        ELSE IF ~env.connect THEN PreviewOutcome("cannot connect", created, <<>>)
        ELSE IF ~Truthy(c.table) \/ IsBlank(c.table)
        THEN IF Contains(Lower(c.type), "sqlite")
             THEN IF env.probe
                  THEN PreviewOutcome(NoValue, [opened EXCEPT !.probes = 1], <<>>)
                  ELSE PreviewOutcome("SQLite database file is invalid or cannot be accessed",
                                      [opened EXCEPT !.probes = 1], <<>>)
             ELSE PreviewOutcome(NoValue, opened, <<>>)
        ELSE IF env.query
        THEN PreviewOutcome(NoValue, [opened EXCEPT !.selects = 1],
                            HeadOf(env.table.rows, PreviewRows))
        ELSE PreviewOutcome("query failed", [opened EXCEPT !.selects = 1], <<>>)

\* installed: the optional driver imports; connect, probe, query: the step
\* succeeds; table: what the table holds
PreviewEnvs ==
    [installed : BOOLEAN, connect : BOOLEAN, probe : BOOLEAN, query : BOOLEAN,
     table : { DbBatch, Batch(<< Row(NONE) >>) }]

\* the descriptors previews are asked for
PreviewInputs ==
    { Dataset(NoValue, [DbConfig(t, tb) EXCEPT !.host = h]) :
        t \in DbTypes \cup { "SQL Server" }, tb \in { "", "orders" }, h \in { "db.local", "" } }
    \cup { Dataset(NoValue, [DbConfig("sqlite", "") EXCEPT !.host = "", !.database = ""]),
           Dataset("data.csv", NoDbConfig), Dataset(NoValue, NoDbConfig) }

(* ---------------------- endpoints.preview_dataset ----------------------- *)
PreviewDataset(ds, b, env) ==
    /\ pc = "idle"
    /\ IF ds.file_path # NoValue /\ PathExists(ds.file_path)
       THEN \* pd.read_csv(nrows=5); a file that does not parse previews as empty
            /\ b \in FileBatches
            /\ response' = [op |-> "preview", status |-> 200,
                            headers |-> IF env.query THEN b.columns ELSE <<>>,
                            rows |-> IF env.query THEN HeadOf(b.rows, PreviewRows) ELSE <<>>]
            /\ db_io' = NoIo
       ELSE IF ds.db_config # NoDbConfig
       THEN LET out == GetDbPreview(ds.db_config, env)
            IN  /\ b = NoBatch
                /\ db_io' = out.io
                /\ response' =
                     IF out.error # NoValue THEN HttpError("preview", 400, out.error)
                     ELSE [op |-> "preview", status |-> 200,
                           headers |-> out.headers, rows |-> out.rows]
       ELSE /\ b = NoBatch
            /\ db_io' = NoIo
            /\ response' = [op |-> "preview", status |-> 200, headers |-> <<>>, rows |-> <<>>]
    /\ pc' = "previewed"
    /\ dataset' = ds
    /\ suite' = NoSuite
    /\ ResetLocals
    /\ UNCHANGED << runs, api_key, context, source_up >>

(* --------------------------- specification ------------------------------ *)
Next ==
    \/ \E ds \in DatasetInputs \cup { NoDataset }, su \in SuiteInputs \cup { NoSuite },
          up \in BOOLEAN :
          ValidateRequest(ds, su, up)
    \/ \E raises \in BOOLEAN : SetupSuite(raises)
    \/ \E b \in FileBatches \cup { DbBatch, NoBatch }, raises \in BOOLEAN : ResolveSource(b, raises)
    \/ \E n \in 0..MaxRules, raises \in BOOLEAN :
          \E flags \in [1..n -> BOOLEAN] : RunCheckpoint(flags, raises)
    \/ \E raises \in BOOLEAN : AiPrepare(raises)
    \/ \E raised \in BOOLEAN, answer \in JudgeAnswers(JudgeKeys) : AiRule(raised, answer)
    \/ Respond
    \/ ReadRuns

\* validation runs and the run history
Spec == Init /\ [][Next]_vars

NextPreview ==
    \E ds \in PreviewInputs, b \in FileBatches \cup { NoBatch }, env \in PreviewEnvs :
       PreviewDataset(ds, b, env)

NextSemantic ==
    \E vals \in SeqsUpTo(CellValues, MaxRows), raised \in BOOLEAN,
       answer \in JudgeAnswers(JudgeKeys) :
       EvaluateSemantic(vals, raised, answer)

\* runs the server may store before it takes no further validate request
MaxRuns == 2

\* the request is answered and the server takes the next one: the frame of
\* gx_service.run_validation is gone, the table of runs and the context stay
NextRequest ==
    /\ pc = "done"
    /\ Len(runs) < Len(StoredRuns) + MaxRuns
    /\ pc' = "idle"
    /\ response' = NoResponse
    /\ ClearFrame
    /\ UNCHANGED << runs, api_key, context, source_up, db_io >>

\* the datasets and suites of successive runs: one table and one file, a
\* deterministic rule, a semantic rule, both, or none
SuccessiveDatasets ==
    { Dataset("data.csv", NoDbConfig), Dataset(NoValue, DbConfig("PostgreSQL", "orders")) }

SuccessiveSuites ==
    { Suite(e) : e \in { <<>>, << Rule(KNOWN_TYPE, "c", NoValue) >>,
                         << Rule(AI_TYPE, NoValue, "c") >>,
                         << Rule(KNOWN_TYPE, "c", NoValue), Rule(AI_TYPE, NoValue, "c") >> } }

NextSuccessive ==
    \/ \E ds \in SuccessiveDatasets, su \in SuccessiveSuites, up \in BOOLEAN :
          ValidateRequest(ds, su, up)
    \/ SetupSuite(FALSE)
    \/ \E b \in FileBatches \cup { DbBatch, NoBatch }, raises \in BOOLEAN : ResolveSource(b, raises)
    \/ \E n \in 0..MaxRules, raises \in BOOLEAN :
          \E flags \in [1..n -> BOOLEAN] : RunCheckpoint(flags, raises)
    \/ \E raises \in BOOLEAN : AiPrepare(raises)
    \/ \E raised \in BOOLEAN, answer \in JudgeAnswers(JudgeKeys) : AiRule(raised, answer)
    \/ Respond
    \/ NextRequest

\* validation runs served one after the other by one process
SpecSuccessive == Init /\ [][NextSuccessive]_vars

\* the evaluation of a semantic rule over every list of column values
SpecSemantic == Init /\ [][NextSemantic]_vars

\* the stateless preview of a dataset descriptor
SpecPreview == Init /\ [][NextPreview]_vars

(* ============================== claims ================================== *)
\* the validate endpoint answered with a run summary
Answered == pc = "done" /\ response.op = "validate" /\ response.status = 200

InRange(score) == 0 <= score.num /\ score.num <= 100 * score.den

RECURSIVE OutcomeFlags(_)
\* the success flags of the rule outcomes a result holds: one per element of a
\* "results" list, one per injected semantic entry, one for the synthetic
\* failure
OutcomeFlags(run_results) ==
    IF run_results = <<>> THEN <<>>
    ELSE LET e == Head(run_results)
         IN  (IF e.kind = "gx"
              THEN [i \in 1..Len(e.results) |-> e.results[i].success]
              ELSE << e.statistics.success = "true" >>)
             \o OutcomeFlags(Tail(run_results))

AllSucceed(flags) == \A i \in 1..Len(flags) : flags[i]

HasKind(run_results, kind) == \E i \in 1..Len(run_results) : run_results[i].kind = kind

\* C1 as stated: in every run summary the score lies in [0,100] and
\* score == 100.0 exactly when overallSuccess is true
C1_Original ==
    Answered =>
        /\ InRange(response.score)
        /\ (response.score = Hundred) <=> response.success

\* C1 as amended: the score lies in [0,100]; a score of 100.0 implies
\* overallSuccess; overallSuccess implies a score of 100.0 except for a run
\* without any outcome (the empty rule set, or semantic rules that were all
\* passed over), whose summary is overallSuccess = true with score = 0.0
C1_ScoreAndSuccess ==
    Answered =>
        /\ InRange(response.score)
        /\ response.score = Hundred => response.success
        /\ response.success =>
              \/ response.score = Hundred
              \/ result_dict.run_results = <<>> /\ response.score = Zero

C1_Witness ==
    /\ Answered
    /\ suite.expectations = <<>>
    /\ response.success
    /\ response.score = Zero

\* C2: overallSuccess is true whenever score == 100.0, in the summary the
\* validate operation returns and in every run of the history listing,
\* whatever flag the statistics carried or the stored run holds
C2_Reconciled ==
    /\ Answered => (response.score = Hundred => response.success)
    /\ pc = "listed" =>
          \A i \in 1..Len(response.runs) :
             response.runs[i].score = Hundred => response.runs[i].success

\* a summary of score 100 whose statistics carried no true flag
C2_Witness ==
    /\ Answered
    /\ response.score = Hundred
    /\ response.success
    /\ result_dict.run_results[1].statistics.success # "true"

\* C3: with deterministic and semantic outcomes in one run, the score is
\* 100 * passedRuleCount / totalRuleCount over all rule outcomes
C3_EqualWeights ==
    Answered /\ HasKind(result_dict.run_results, "gx") /\ HasKind(result_dict.run_results, "ai")
    => LET flags == OutcomeFlags(result_dict.run_results)
       IN  response.score = Percent(CountTrue(flags), Len(flags))

\* C4: overallSuccess is the conjunction of the success flags of all rule
\* outcomes, deterministic and semantic, forced to true only at a score of 100.0
C4_Conjunction ==
    Answered =>
        response.success =
            (AllSucceed(OutcomeFlags(result_dict.run_results)) \/ response.score = Hundred)

\* a failing outcome beside a passing one, at a score below 100
C4_Witness ==
    /\ Answered
    /\ \E i, j \in 1..Len(OutcomeFlags(result_dict.run_results)) :
          OutcomeFlags(result_dict.run_results)[i] /\ ~OutcomeFlags(result_dict.run_results)[j]
    /\ response.score # Hundred
    /\ ~response.success

\* C5: an empty rule set validated against a source that resolved yields a
\* RunResult with overallSuccess = true, score = 0.0 and no outcomes
C5_EmptyRuleSet ==
    pc = "done" /\ response.op = "validate" /\ suite # NoSuite /\ suite.expectations = <<>>
                /\ batch # NoBatch
    => /\ response.status = 200
       /\ response.success
       /\ response.score = Zero
       /\ response.results = <<>>
       /\ result_dict.run_results = <<>>

C5_Witness ==
    /\ Answered
    /\ suite.expectations = <<>>
    /\ dataset.file_path = "data.csv"
    /\ response.results = <<>>

HasUnknownRule ==
    \E i \in 1..Len(suite.expectations) :
       suite.expectations[i].type \notin { KNOWN_TYPE, AI_TYPE }

\* C6: a rule set holding a rule of unknown type is rejected as a whole
\* before evaluation: no rule is evaluated, the run ends with a top-level
\* error, no RunResult is returned and none is stored
C6_UnknownTypeRejected ==
    HasUnknownRule =>
        /\ result_dict = EmptyResult
        /\ runs = StoredRuns
        /\ pc = "done" => response.status # 200

\* the values of type that name no dialect the preview connects to
UnregisteredTypes == { "hive", "Neo4j", "MongoDB", "" }

\* C7: in the preview, a descriptor whose dialect is a graph or document
\* store, or is otherwise unregistered, fails with an error before an engine
\* is created or a connection attempted
C7_UnsupportedBeforeConnect ==
    pc = "previewed" /\ dataset.db_config # NoDbConfig
                     /\ dataset.db_config.type \in UnregisteredTypes
    => /\ response.status = 400
       /\ db_io = NoIo

C7_Witness ==
    /\ pc = "previewed"
    /\ dataset.db_config # NoDbConfig
    /\ dataset.db_config.type = "Neo4j"
    /\ response.status = 400
    /\ db_io.engine = NoValue

\* the dataset is read through its db_config
IsRelational(ds) ==
    /\ ds # NoDataset
    /\ ~(ds.file_path # NoValue /\ PathExists(ds.file_path))
    /\ ds.db_config # NoDbConfig

\* the values of type gx_service has a driver for
AdapterTypes == { "PostgreSQL", "MySQL", "sqlite" }

\* C8: in a validation run on a relational source, a dialect without a
\* registered adapter makes the run fail at once: no connection string is
\* built with another engine's driver and the run goes no further
C8_NoDefaultDriver ==
    IsRelational(dataset) /\ dataset.db_config.type \notin AdapterTypes
    => /\ connection_string = NoValue
       /\ pc \in { "setup_suite", "resolve", "done" }
       /\ pc = "done" => response.status # 200

\* the occurrences of a non-null, non-empty value without a true verdict
Unconfirmed ==
    { i \in 1..Len(values) :
        /\ values[i] \notin { NONE, "" }
        /\ \/ Str(values[i]) \notin DOMAIN validation_map
           \/ ~validation_map[Str(values[i])] }

\* the statistics of the outcome of the semantic rule evaluated
SemanticStats == result_dict.run_results[1].statistics

\* C9: every occurrence of a non-null, non-empty value that the judge's map
\* lacks or maps to false is counted as a failure, and the rule succeeds only
\* if every checked occurrence has the verdict true
C9_FailClosed ==
    pc = "evaluated" =>
        /\ SemanticStats.observed_value >= Cardinality(Unconfirmed)
        /\ (\A i \in 1..Len(values) : values[i] \notin { NONE, "" })
              => SemanticStats.observed_value = Cardinality(Unconfirmed)
        /\ SemanticStats.success = "true" => Unconfirmed = {}

\* the judge answered, and left out a value that the outcome counts
C9_Witness ==
    /\ pc = "evaluated"
    /\ judge_log # <<>>
    /\ DOMAIN validation_map # {}
    /\ \E i \in 1..Len(values) :
          values[i] \notin { NONE, "" } /\ Str(values[i]) \notin DOMAIN validation_map
    /\ SemanticStats.observed_value >= 1
    /\ SemanticStats.success = "false"

\* C10: null and empty values are discarded and not counted as failures; with
\* no distinct value left the outcome is a vacuous success and the judge is
\* not called
C10_NullsDiscarded ==
    pc = "evaluated" =>
        /\ SemanticStats.observed_value = Cardinality(Unconfirmed)
        /\ (\A i \in 1..Len(values) : values[i] \in { NONE, "" })
              => SemanticStats.success = "true" /\ judge_log = <<>>

\* the string s stands at exactly one place of the list sent
SentOnce(sent, s) == Cardinality({ k \in 1..Len(sent) : sent[k] = s }) = 1

\* C11: for a semantic rule the judge is consulted in at most one batched call,
\* and the list sent in it holds the string form of each distinct non-null,
\* non-empty value exactly once, and nothing else, however many rows carry it
C11_OneCallDistinctValues ==
    pc = "evaluated" =>
        /\ Len(judge_log) <= 1
        /\ \A c \in 1..Len(judge_log) :
              /\ \A i \in 1..Len(values) :
                    values[i] \notin { NONE, "" } => SentOnce(judge_log[c].values, Str(values[i]))
              /\ \A k \in 1..Len(judge_log[c].values) :
                    \E i \in 1..Len(values) :
                       values[i] \notin { NONE, "" } /\ Str(values[i]) = judge_log[c].values[k]

\* two rows carry the same value, and the call lists it once
C11_Witness ==
    /\ pc = "evaluated"
    /\ Len(judge_log) = 1
    /\ \E i, j \in 1..Len(values) :
          i # j /\ values[i] = values[j] /\ values[i] \notin { NONE, "" }
    /\ Len(judge_log[1].values) = 1

\* the semantic rules of the suite validated
SemanticRules == SelectSeq(suite.expectations, IsAi)

\* the column a rule names, in kwargs or beside them
RuleColumn(exp) == IF exp.kwargs.column # NoValue THEN exp.kwargs.column ELSE exp.column

\* the outcomes injected for semantic rules
SemanticOutcomes == SelectSeq(result_dict.run_results, LAMBDA e : e.kind = "ai")

\* C12: in every completed run no semantic rule is missing from the outcomes
\* of the result, and when the judge cannot be reached for want of an API key
\* the result holds, for every semantic rule of the rule set, an outcome with
\* success = false and meta.error set
C12_JudgeUnavailableOutcome ==
    Answered /\ batch.rows # <<>>
    => /\ Len(SemanticOutcomes) = Len(SemanticRules)
       /\ ~api_key =>
             \A i \in 1..Len(SemanticRules) :
                \E k \in 1..Len(SemanticOutcomes) :
                   /\ SemanticOutcomes[k].key = "ai_validation_" \o RuleColumn(SemanticRules[i])
                   /\ SemanticOutcomes[k].statistics.success = "false"
                   /\ "error" \in DOMAIN SemanticOutcomes[k].meta

RECURSIVE ReportedResults(_)
\* the number of per-rule results the entries of a result hold
ReportedResults(run_results) ==
    IF run_results = <<>> THEN 0
    ELSE Len(Head(run_results).results) + ReportedResults(Tail(run_results))

\* C13: an exception raised while a rule is evaluated is isolated to that
\* rule: the run is answered with a failing outcome carrying the error text
\* in its meta, and every other rule handed to the checkpoint is still
\* reported with an outcome of its own
C13_ExceptionIsolated ==
    Answered /\ HasKind(result_dict.run_results, "error")
    => /\ ReportedResults(result_dict.run_results) >= Len(gx_suite) - 1
       /\ \A k \in 1..Len(result_dict.run_results) :
             result_dict.run_results[k].kind = "error"
             => "meta" \in DOMAIN result_dict.run_results[k]

\* C14: when the source of the dataset cannot be read, the validate
\* operation ends in a top-level error: the caller gets no RunResult, be it
\* synthetic or half-populated (a RunResult is what is stored with the run)
C14_SourceUnavailable ==
    pc = "done" /\ response.op = "validate" /\ dataset # NoDataset /\ suite # NoSuite
                /\ ~source_up
    => response.status # 200

\* every rule of the rule set has been dealt with: the checkpoint has run
\* and the loop over the semantic rules is past its last element
EvaluationFinished ==
    /\ pc = "return"
    /\ ai_idx = Len(ai_expectations) + 1
    /\ Len(standard_expectations) + Len(ai_expectations) = Len(suite.expectations)

C16_RunsIndependent ==
    pc \in { "setup_suite", "resolve" } => context = EmptyContext

\* C17: a preview of a descriptor without table, for a dialect the preview
\* connects to, that returns a batch has opened the connection, executed
\* exactly one metadata probe and no SELECT on a table, and returns no headers
\* and no rows
C17_ConnectivityOnly ==
    pc = "previewed" /\ dataset.db_config # NoDbConfig /\ dataset.db_config.table = ""
                     /\ db_io.engine # NoValue /\ response.status = 200
    => /\ db_io.connected
       /\ db_io.probes = 1
       /\ db_io.selects = 0
       /\ response.headers = <<>>
       /\ response.rows = <<>>

\* how often the character ch stands in s
CountChar(s, ch) == Cardinality({ i \in 1..Len(s) : CharAt(s, i) = ch })

\* C18: the connection string of a validation run holds the credentials in
\* percent-encoded form only: of the reserved characters it holds the one
\* "@" before the host, the ":" of the scheme, of user:password and of
\* host:port, and the "/" of the scheme and before the database, and no other
C18_CredentialsEncoded ==
    connection_string # NoValue /\ SubSeq(connection_string, 1, 6) # "sqlite"
    => /\ CountChar(connection_string, "@") = 1
       /\ CountChar(connection_string, ":") = 3
       /\ CountChar(connection_string, "/") = 3

\* C19: no step of a validation run, whether the run is answered or raises,
\* changes the suite: type, column and kwargs of every rule stay as stored
C19_SuiteUnchanged ==
    [][ (pc \in { "setup_suite", "resolve", "checkpoint", "ai_prepare", "ai_rule", "return" })
        => suite' = suite ]_vars

\* a run is answered whose configuration took the column of a rule into its
\* kwargs, while the kwargs of the rule hold none
C19_Witness ==
    /\ Answered
    /\ \E i \in 1..Len(suite.expectations) :
          /\ suite.expectations[i].type = KNOWN_TYPE
          /\ suite.expectations[i].column = "c"
          /\ suite.expectations[i].kwargs.column = NoValue
    /\ \E k \in 1..Len(gx_suite) : gx_suite[k].kwargs.column = "c"

====
